---- MODULE Spec2Model ----
(***************************************************************************)
(* Model of nkicsl/DLFrameworkBench, bert-squad:                           *)
(*   - tensorflow2.6/src/optimizer.py : WarmUp, create_optimizer,          *)
(*     AdamWeightDecay                                                     *)
(*   - pytorch1.9/train.py            : main (training / evaluation loop)  *)
(* One behaviour runs one of the three components (variable `component`).  *)
(* Floating-point values are modelled as exact rationals <<num, den>>,     *)
(* den > 0, in lowest terms; init_lr is counted in units of 1e-4.          *)
(***************************************************************************)
EXTENDS Integers, Sequences, FiniteSets, TLC

VARIABLES
    component,          \* which program runs: "schedule", "optimizer", "driver"
    pc,                 \* position of the running program
    exc,                \* the exception that ended it, or "none"
    \* ---- create_optimizer / WarmUp (optimizer.py:5-73)
    init_lr,            \* argument init_lr of create_optimizer (requested peak)
    num_train_steps,    \* argument num_train_steps
    num_warmup_steps,   \* argument num_warmup_steps
    optimizer_type,     \* argument optimizer_type
    learning_rate_fn,   \* the schedule object built, or None
    iterations,         \* optimizer.iterations: updates applied so far
    step,               \* the step the schedule was last called with
    rate,               \* the rate it returned
    prev_rate,          \* the rate of the call before
    \* ---- AdamWeightDecay (optimizer.py:76-173)
    opt,                \* the AdamWeightDecay object in use
    orig,               \* the object as first constructed
    var_name,           \* var.name of the parameter being updated
    var,                \* its value
    var0,               \* its value when the update began
    sparse,             \* TRUE in _resource_apply_sparse, FALSE in _dense
    decayed_lr,         \* the learning rate of this optimizer step
    apply_state,        \* the caller's apply_state dict, or None
    lr_t,               \* local lr_t of _resource_apply_*
    kwargs,             \* local kwargs of _resource_apply_*
    do_decay,           \* local do_decay of _decay_weights_op
    applied,            \* the assignments made to var by this update, in order
    reloaded,           \* TRUE once opt came from from_config(get_config())
    \* ---- main of pytorch1.9/train.py
    config_optimizer_type,  \* config['optimizer-type']
    py_optimize,        \* the interpreter runs with -O: assert statements are dropped
    is_prof,            \* args.is_prof
    n_train_features,   \* len(train_features)
    train_batch_size,   \* args.train_batch_size
    num_train_epochs,   \* args.num_train_epochs, a whole number of epochs
    n_eval_batches,     \* len(eval_dataloader)
    step_size,          \* local step_size
    num_train_optimization_steps,   \* local, the scheduler's total_steps
    torch_optimizer,    \* TRUE once optimizer and scheduler are constructed
    epoch,              \* loop variable of the epoch loop
    batch,              \* batches the running training loop has taken
    eval_done,          \* batches the running evaluation loop has taken
    optimizer_steps,    \* calls of optimizer.step()
    scheduler_steps,    \* calls of scheduler.step()
    predictions_written,    \* times predictions.json was written
    eval_at_write,      \* eval_done when predictions.json was last written
    eval_script_runs    \* times the evaluation script was invoked

schedVars == <<init_lr, num_train_steps, num_warmup_steps, optimizer_type,
               learning_rate_fn, iterations, step, rate, prev_rate>>
optVars == <<opt, orig, var_name, var, var0, sparse, decayed_lr, apply_state,
             lr_t, kwargs, do_decay, applied, reloaded>>
drvArgs == <<config_optimizer_type, py_optimize, is_prof, n_train_features,
             train_batch_size, num_train_epochs, n_eval_batches>>
drvVars == <<drvArgs, step_size, num_train_optimization_steps, torch_optimizer,
             epoch, batch, eval_done, optimizer_steps, scheduler_steps,
             predictions_written, eval_at_write, eval_script_runs>>
vars == <<component, pc, exc, schedVars, optVars, drvVars>>

\* Python's None and a value that may be None: <<>> is None, <<x>> is x.
None == <<>>
Some(x) == <<x>>
Get(o) == o[1]
NoStep == 0 - 1           \* the schedule was not called yet
NoRate == <<0, 0>>      \* no rate was returned yet
NoSchedule == [kind |-> "None"]

\* ---- bounds of the model
MaxInitLr == 2
MaxTrainSteps == 5
MaxWarmupSteps == 4
StepsPastEnd == 2
MaxPatterns == 1        \* longest include / exclude list
MaxDecayRate == 2       \* largest weight_decay_rate, in units
MaxFeatures == 4        \* most training features
MaxBatchSize == 2       \* largest train_batch_size
MaxEpochs == 2          \* most epochs
MaxEvalBatches == 2     \* most evaluation batches

\* ---- exact rational arithmetic standing for the float arithmetic
Abs(x) == IF x < 0 THEN -x ELSE x

RECURSIVE Gcd(_, _)
Gcd(a, b) == IF b = 0 THEN a ELSE Gcd(b, a % b)

Norm(n, d) ==
    LET g == Gcd(Abs(n), Abs(d))
        s == IF d < 0 THEN -1 ELSE 1
    IN  <<(s * n) \div g, (s * d) \div g>>

Rat(n) == <<n, 1>>
RMul(a, b) == Norm(a[1] * b[1], a[2] * b[2])
RSub(a, b) == Norm(a[1] * b[2] - b[1] * a[2], a[2] * b[2])
RAdd(a, b) == Norm(a[1] * b[2] + b[1] * a[2], a[2] * b[2])
RDiv(a, b) == Norm(a[1] * b[2], a[2] * b[1])
RLt(a, b) == a[1] * b[2] < b[1] * a[2]
RLe(a, b) == a[1] * b[2] <= b[1] * a[2]

RECURSIVE RPow(_, _)
RPow(a, n) == IF n = 0 THEN Rat(1) ELSE RMul(a, RPow(a, n - 1))

Min(a, b) == IF a < b THEN a ELSE b

\* ---- tf.keras.optimizers.schedules.PolynomialDecay(...)(step), cycle=False
PolynomialDecayCall(self, s) ==
    LET global_step_recomp == Min(s, self.decay_steps)
        p == RDiv(Rat(global_step_recomp), Rat(self.decay_steps))
    IN  RAdd(RMul(RSub(self.initial_learning_rate, self.end_learning_rate),
                  RPow(RSub(Rat(1), p), self.power)),
             self.end_learning_rate)

\* Faulty variant, for mutation analysis: the warm-up branch is also taken at step == warmup_steps
WarmUpCall_Inclusive(self, s) ==
    LET warmup_percent_done == RDiv(Rat(s), Rat(self.warmup_steps))
        warmup_learning_rate ==
            RMul(self.initial_learning_rate, RPow(warmup_percent_done, self.power))
    IN  IF s <= self.warmup_steps
        THEN warmup_learning_rate
        ELSE PolynomialDecayCall(self.decay_schedule_fn, s)

\* ---- WarmUp.__call__
WarmUpCall(self, s) ==
    LET warmup_percent_done == RDiv(Rat(s), Rat(self.warmup_steps))
        warmup_learning_rate ==
            RMul(self.initial_learning_rate, RPow(warmup_percent_done, self.power))
    IN  IF s < self.warmup_steps
        THEN warmup_learning_rate
        ELSE PolynomialDecayCall(self.decay_schedule_fn, s)

ScheduleCall(fn, s) ==
    IF fn.kind = "WarmUp" THEN WarmUpCall(fn, s) ELSE PolynomialDecayCall(fn, s)

\* ---- create_optimizer: the locals it computes
CrossoverPoint(lr, T, w) ==
    RMul(Rat(lr), RPow(RSub(Rat(1), RDiv(Rat(w), Rat(T))), 1))

\* Faulty variant, for mutation analysis: init_lr is not rescaled by the crossover point
AdjustedInitLr_Unscaled(lr, T, w) == Rat(lr)

AdjustedInitLr(lr, T, w) ==
    RMul(Rat(lr), RDiv(Rat(lr), CrossoverPoint(lr, T, w)))

PolynomialDecay(lr0, T) ==
    [kind |-> "PolynomialDecay", initial_learning_rate |-> lr0,
     decay_steps |-> T, end_learning_rate |-> Rat(0), power |-> 1]

WarmUp(lr0, fn, w) ==
    [kind |-> "WarmUp", initial_learning_rate |-> lr0,
     decay_schedule_fn |-> fn, warmup_steps |-> w, power |-> 1]

BuildSchedule(lr, T, w) ==
    LET adjusted == AdjustedInitLr(lr, T, w)
        decay == PolynomialDecay(adjusted, T)
    IN  IF w # 0 THEN WarmUp(adjusted, decay, w) ELSE decay

\* ======================= AdamWeightDecay =======================
\* Parameter names and regular expressions are strings over a two-letter
\* alphabet; in a pattern "." matches any character.
ParamNames == {<<"b">>, <<"k">>, <<"b", "k">>, <<"k", "b">>, <<"k", "k">>}
Patterns == {<<"b">>, <<"k", "b">>, <<".", "k">>}
LrValues == {1, 2}
VarValues == {-2, 3}
GradSigns == {-1, 1}

SeqsUpTo(S, n) == UNION {[1..k -> S] : k \in 0..n}
PatternLists == {None} \cup {Some(l) : l \in SeqsUpTo(Patterns, MaxPatterns)}

\* re.search(r, param_name) is not None
MatchAt(r, name, i) ==
    /\ i + Len(r) - 1 <= Len(name)
    /\ \A j \in 1..Len(r) : r[j] = "." \/ r[j] = name[i + j - 1]

ReSearch(r, name) == \E i \in 1..(Len(name) + 1) : MatchAt(r, name, i)

\* truth value of a list-or-None in `if lst:`
Truthy(lst) == lst # None /\ Len(Get(lst)) > 0

\* AdamWeightDecay.__init__
AdamWeightDecayInit(learning_rate, weight_decay_rate, include, exclude) ==
    [learning_rate |-> learning_rate,
     weight_decay_rate |-> weight_decay_rate,
     include_in_weight_decay |-> include,
     exclude_from_weight_decay |-> exclude]

\* AdamWeightDecay.get_config: Adam's config plus weight_decay_rate
get_config(self) ==
    [learning_rate |-> self.learning_rate,
     weight_decay_rate |-> self.weight_decay_rate]

\* AdamWeightDecay.from_config: cls(**config), the other arguments defaulted
from_config(config) ==
    AdamWeightDecayInit(config.learning_rate, config.weight_decay_rate, None, None)

\* Faulty variant, for mutation analysis: the exclusion list is consulted before the inclusion list
do_use_weight_decay_ExcludeFirst(self, param_name) ==
    IF self.weight_decay_rate = 0 THEN FALSE
    ELSE IF /\ Truthy(self.exclude_from_weight_decay)
            /\ \E i \in 1..Len(Get(self.exclude_from_weight_decay)) :
                   ReSearch(Get(self.exclude_from_weight_decay)[i], param_name)
    THEN FALSE
    ELSE TRUE

\* AdamWeightDecay._do_use_weight_decay
do_use_weight_decay(self, param_name) ==
    IF self.weight_decay_rate = 0 THEN FALSE
    ELSE IF /\ Truthy(self.include_in_weight_decay)
            /\ \E i \in 1..Len(Get(self.include_in_weight_decay)) :
                   ReSearch(Get(self.include_in_weight_decay)[i], param_name)
    THEN TRUE
    ELSE IF /\ Truthy(self.exclude_from_weight_decay)
            /\ \E i \in 1..Len(Get(self.exclude_from_weight_decay)) :
                   ReSearch(Get(self.exclude_from_weight_decay)[i], param_name)
    THEN FALSE
    ELSE TRUE

\* apply_state is a dict keyed by (device, dtype): "this" is the key of the
\* variable being updated, "other" any other key.
EmptyDict == [k \in {} |-> 0]
HasKey(d, k) == k \in DOMAIN d
DictSet(d, k, v) == [x \in (DOMAIN d) \cup {k} |-> IF x = k THEN v ELSE d[x]]

\* _prepare_local (and _fallback_apply_state, which calls it): the coefficients
\* of one (device, dtype)
Coefficients(self, lr) == [lr_t |-> lr, weight_decay_rate |-> self.weight_decay_rate]

ApplyStates(self, lr) ==
    {None,
     Some(EmptyDict),
     Some(DictSet(EmptyDict, "other", Coefficients(self, lr))),
     Some(DictSet(EmptyDict, "this", Coefficients(self, lr)))}

Raise(e) == pc' = "raised" /\ exc' = e

create_optimizer ==
    /\ component = "schedule" /\ pc = "start"
    /\ IF optimizer_type # "adam"
       THEN Raise("NotImplementedError") /\ UNCHANGED learning_rate_fn
       ELSE IF num_train_steps = 0
       THEN Raise("ZeroDivisionError") /\ UNCHANGED learning_rate_fn
       ELSE IF CrossoverPoint(init_lr, num_train_steps, num_warmup_steps) = Rat(0)
       THEN Raise("ZeroDivisionError") /\ UNCHANGED learning_rate_fn
       ELSE /\ learning_rate_fn' =
                   BuildSchedule(init_lr, num_train_steps, num_warmup_steps)
            /\ pc' = "built" /\ UNCHANGED exc
    /\ UNCHANGED <<component, init_lr, num_train_steps, num_warmup_steps,
                   optimizer_type, iterations, step, rate, prev_rate, optVars, drvVars>>

\* One optimizer update: the schedule is called with optimizer.iterations,
\* which is then advanced by one.
ScheduleStep ==
    /\ component = "schedule" /\ pc = "built"
    /\ iterations < num_train_steps + StepsPastEnd
    /\ step' = iterations
    /\ rate' = ScheduleCall(learning_rate_fn, iterations)
    /\ prev_rate' = rate
    /\ iterations' = iterations + 1
    /\ UNCHANGED <<component, pc, exc, init_lr, num_train_steps,
                   num_warmup_steps, optimizer_type, learning_rate_fn, optVars, drvVars>>

\* ---- AdamWeightDecay._get_lr: [lr_t, kwargs, and the caller's dict afterwards]
\* `apply_state or {}` keeps a non-empty dict (then mutated in place) and
\* replaces an empty one by a fresh dict the caller does not see.
get_lr(self, state, lr) ==
    IF state = None
    THEN [lr_t |-> lr, kwargs |-> EmptyDict, caller |-> None]
    ELSE LET coefficients ==
                 IF HasKey(Get(state), "this") THEN Get(state)["this"]
                 ELSE Coefficients(self, lr)
             filled == DictSet(Get(state), "this", coefficients)
         IN  [lr_t |-> coefficients.lr_t,
              kwargs |-> DictSet(EmptyDict, "apply_state", filled),
              caller |-> IF DOMAIN Get(state) = {} THEN state ELSE Some(filled)]

\* Entry of _resource_apply_dense / _resource_apply_sparse up to the call of
\* _get_lr. With apply_state None the rate is read from self._decayed_lr_t,
\* an attribute this class never sets: the read yields this step's rate when
\* the framework provides it and raises AttributeError when it does not.
resource_apply_begin(sp) ==
    /\ component = "optimizer" /\ pc = "idle"
    /\ \E name \in ParamNames, value \in VarValues, lr \in LrValues :
       \E state \in ApplyStates(opt, lr) :
         LET r == get_lr(opt, state, lr) IN
         /\ var_name' = name /\ var' = value /\ var0' = value
         /\ sparse' = sp /\ decayed_lr' = lr
         /\ apply_state' = r.caller
         /\ applied' = <<>> /\ do_decay' = FALSE
         /\ \/ /\ lr_t' = r.lr_t /\ kwargs' = r.kwargs
               /\ pc' = "decay" /\ UNCHANGED exc
            \/ /\ state = None
               /\ lr_t' = 0 /\ kwargs' = EmptyDict
               /\ Raise("AttributeError")
    /\ UNCHANGED <<component, opt, orig, reloaded, schedVars, drvVars>>

resource_apply_dense == resource_apply_begin(FALSE)

resource_apply_sparse == resource_apply_begin(TRUE)

\* Faulty variant, for mutation analysis: the decay term omits the factor var
decay_weights_op_NoVar ==
    /\ component = "optimizer" /\ pc = "decay"
    /\ do_decay' = do_use_weight_decay(opt, var_name)
    /\ IF do_decay'
       THEN IF apply_state = None
            THEN Raise("TypeError") /\ UNCHANGED <<var, applied>>
            ELSE IF ~HasKey(Get(apply_state), "this")
            THEN Raise("KeyError") /\ UNCHANGED <<var, applied>>
            ELSE LET delta == lr_t * Get(apply_state)["this"].weight_decay_rate
                 IN  /\ var' = var - delta
                     /\ applied' = Append(applied,
                            [op |-> "assign_sub", lr |-> lr_t, delta |-> delta])
                     /\ pc' = "adam" /\ UNCHANGED exc
       ELSE pc' = "adam" /\ UNCHANGED <<exc, var, applied>>
    /\ UNCHANGED <<component, opt, orig, reloaded, var_name, var0, sparse,
                   decayed_lr, apply_state, lr_t, kwargs, schedVars, drvVars>>

\* Faulty variant, for mutation analysis: the decay op is built but left out of the control dependencies,
\* so it never runs
decay_weights_op_NotRun ==
    /\ component = "optimizer" /\ pc = "decay"
    /\ do_decay' = do_use_weight_decay(opt, var_name)
    /\ pc' = "adam"
    /\ UNCHANGED <<component, exc, var, applied, opt, orig, reloaded, var_name,
                   var0, sparse, decayed_lr, apply_state, lr_t, kwargs,
                   schedVars, drvVars>>

\* AdamWeightDecay._decay_weights_op
decay_weights_op ==
    /\ component = "optimizer" /\ pc = "decay"
    /\ do_decay' = do_use_weight_decay(opt, var_name)
    /\ IF do_decay'
       THEN IF apply_state = None
            THEN Raise("TypeError") /\ UNCHANGED <<var, applied>>
            ELSE IF ~HasKey(Get(apply_state), "this")
            THEN Raise("KeyError") /\ UNCHANGED <<var, applied>>
            ELSE LET delta == lr_t * var * Get(apply_state)["this"].weight_decay_rate
                 IN  /\ var' = var - delta
                     /\ applied' = Append(applied,
                            [op |-> "assign_sub", lr |-> lr_t, delta |-> delta])
                     /\ pc' = "adam" /\ UNCHANGED exc
       ELSE pc' = "adam" /\ UNCHANGED <<exc, var, applied>>
    /\ UNCHANGED <<component, opt, orig, reloaded, var_name, var0, sparse,
                   decayed_lr, apply_state, lr_t, kwargs, schedVars, drvVars>>

\* super()._resource_apply_dense / _sparse(grad, var, **kwargs), run under
\* control_dependencies([decay]): Adam's step var -= lr_t * m_hat/(sqrt(v_hat)+eps),
\* whose last factor is the sign of grad on a first step.
adam_apply ==
    /\ component = "optimizer" /\ pc = "adam"
    /\ LET coefficients ==
               IF HasKey(kwargs, "apply_state") /\ HasKey(kwargs["apply_state"], "this")
               THEN kwargs["apply_state"]["this"]
               ELSE Coefficients(opt, decayed_lr)
       IN  \E g \in GradSigns :
             /\ var' = var - coefficients.lr_t * g
             /\ applied' = Append(applied,
                    [op |-> IF sparse THEN "adam_sparse" ELSE "adam_dense",
                     lr |-> coefficients.lr_t, delta |-> coefficients.lr_t * g])
    /\ pc' = "applied"
    /\ UNCHANGED <<component, exc, opt, orig, reloaded, var_name, var0, sparse,
                   decayed_lr, apply_state, lr_t, kwargs, do_decay, schedVars, drvVars>>

\* _resource_apply_* returns: its locals are gone, the optimizer is idle again.
resource_apply_return ==
    /\ component = "optimizer" /\ pc = "applied"
    /\ pc' = "idle"
    /\ var_name' = <<>> /\ var' = 0 /\ var0' = 0 /\ sparse' = FALSE
    /\ decayed_lr' = 0 /\ apply_state' = None /\ lr_t' = 0 /\ kwargs' = EmptyDict
    /\ do_decay' = FALSE /\ applied' = <<>>
    /\ UNCHANGED <<component, exc, opt, orig, reloaded, schedVars, drvVars>>

\* Checkpoint round trip: the optimizer is rebuilt from its own config.
reload ==
    /\ component = "optimizer" /\ pc = "idle"
    /\ opt' = from_config(get_config(opt))
    /\ reloaded' = TRUE
    /\ UNCHANGED <<component, pc, exc, orig, var_name, var, var0, sparse,
                   decayed_lr, apply_state, lr_t, kwargs, do_decay, applied,
                   schedVars, drvVars>>

\* ======================= pytorch1.9/train.py: main =======================
\* len(train_dataloader): DataLoader keeps the last, smaller batch
NumBatches(n, b) == (n + b - 1) \div b

\* Faulty variant, for mutation analysis: the optimizer type is not checked
driver_setup_NoAssert ==
    /\ component = "driver" /\ pc = "main"
    /\ step_size' = n_train_features \div train_batch_size
    /\ num_train_optimization_steps' = step_size' * num_train_epochs
    /\ torch_optimizer' = TRUE /\ pc' = "epoch" /\ UNCHANGED exc
    /\ UNCHANGED <<component, drvArgs, epoch, batch, eval_done, optimizer_steps,
                   scheduler_steps, predictions_written, eval_at_write,
                   eval_script_runs, schedVars, optVars>>

\* main up to the epoch loop: the assert on the optimizer type, the optimizer
\* and the scheduler
driver_setup ==
    /\ component = "driver" /\ pc = "main"
    /\ step_size' = n_train_features \div train_batch_size
    /\ num_train_optimization_steps' = step_size' * num_train_epochs
    /\ IF config_optimizer_type # "AdamW" /\ ~py_optimize
       THEN Raise("AssertionError") /\ UNCHANGED torch_optimizer
       ELSE torch_optimizer' = TRUE /\ pc' = "epoch" /\ UNCHANGED exc
    /\ UNCHANGED <<component, drvArgs, epoch, batch, eval_done, optimizer_steps,
                   scheduler_steps, predictions_written, eval_at_write,
                   eval_script_runs, schedVars, optVars>>

\* for epoch in range(int(args.num_train_epochs)): the next epoch, or the end
epoch_begin ==
    /\ component = "driver" /\ pc = "epoch"
    /\ IF epoch < num_train_epochs
       THEN pc' = "train" /\ batch' = 0
       ELSE pc' = "finished" /\ UNCHANGED batch
    /\ UNCHANGED <<component, exc, drvArgs, step_size, num_train_optimization_steps,
                   torch_optimizer, epoch, eval_done, optimizer_steps,
                   scheduler_steps, predictions_written, eval_at_write,
                   eval_script_runs, schedVars, optVars>>

\* one pass of `for batch in train_iter`
train_batch ==
    /\ component = "driver" /\ pc = "train"
    /\ batch < NumBatches(n_train_features, train_batch_size)
    /\ optimizer_steps' = optimizer_steps + 1
    /\ scheduler_steps' = scheduler_steps + 1
    /\ batch' = batch + 1
    /\ UNCHANGED <<component, pc, exc, drvArgs, step_size,
                   num_train_optimization_steps, torch_optimizer, epoch, eval_done,
                   predictions_written, eval_at_write, eval_script_runs,
                   schedVars, optVars>>

\* after the training loop: loss.item(), the batch-time print, `if not is_prof`
train_end ==
    /\ component = "driver" /\ pc = "train"
    /\ batch = NumBatches(n_train_features, train_batch_size)
    /\ IF batch = 0
       THEN Raise("UnboundLocalError") /\ UNCHANGED <<epoch, eval_done>>
       ELSE IF step_size = 0
       THEN Raise("ZeroDivisionError") /\ UNCHANGED <<epoch, eval_done>>
       ELSE IF is_prof
       THEN pc' = "epoch" /\ epoch' = epoch + 1 /\ UNCHANGED <<exc, eval_done>>
       ELSE pc' = "eval" /\ eval_done' = 0 /\ UNCHANGED <<exc, epoch>>
    /\ UNCHANGED <<component, drvArgs, step_size, num_train_optimization_steps,
                   torch_optimizer, batch, optimizer_steps, scheduler_steps,
                   predictions_written, eval_at_write, eval_script_runs,
                   schedVars, optVars>>

\* one pass of `for batch in eval_iter`
eval_batch ==
    /\ component = "driver" /\ pc = "eval"
    /\ eval_done < n_eval_batches
    /\ eval_done' = eval_done + 1
    /\ UNCHANGED <<component, pc, exc, drvArgs, step_size,
                   num_train_optimization_steps, torch_optimizer, epoch, batch,
                   optimizer_steps, scheduler_steps, predictions_written,
                   eval_at_write, eval_script_runs, schedVars, optVars>>

\* Faulty variant, for mutation analysis: the write is indented into the evaluation loop
write_predictions_InLoop ==
    /\ component = "driver" /\ pc = "eval"
    /\ predictions_written' = predictions_written + 1
    /\ eval_at_write' = eval_done
    /\ pc' = IF eval_done = n_eval_batches THEN "script" ELSE "eval"
    /\ UNCHANGED <<component, exc, drvArgs, step_size, num_train_optimization_steps,
                   torch_optimizer, epoch, batch, eval_done, optimizer_steps,
                   scheduler_steps, eval_script_runs, schedVars, optVars>>

\* get_answers and the write of predictions.json
write_predictions ==
    /\ component = "driver" /\ pc = "eval"
    /\ eval_done = n_eval_batches
    /\ predictions_written' = predictions_written + 1
    /\ eval_at_write' = eval_done
    /\ pc' = "script"
    /\ UNCHANGED <<component, exc, drvArgs, step_size, num_train_optimization_steps,
                   torch_optimizer, epoch, batch, eval_done, optimizer_steps,
                   scheduler_steps, eval_script_runs, schedVars, optVars>>

\* subprocess.check_output on the evaluation script: its output, or
\* CalledProcessError when it exits non-zero
run_eval_script ==
    /\ component = "driver" /\ pc = "script"
    /\ eval_script_runs' = eval_script_runs + 1
    /\ \/ pc' = "parse" /\ UNCHANGED exc
       \/ Raise("CalledProcessError")
    /\ UNCHANGED <<component, drvArgs, step_size, num_train_optimization_steps,
                   torch_optimizer, epoch, batch, eval_done, optimizer_steps,
                   scheduler_steps, predictions_written, eval_at_write,
                   schedVars, optVars>>

\* the two float(scores.split(":")[i].split(",")[0]) and the end of the epoch
parse_scores ==
    /\ component = "driver" /\ pc = "parse"
    /\ \/ pc' = "epoch" /\ epoch' = epoch + 1 /\ UNCHANGED exc
       \/ Raise("IndexError") /\ UNCHANGED epoch
       \/ Raise("ValueError") /\ UNCHANGED epoch
    /\ UNCHANGED <<component, drvArgs, step_size, num_train_optimization_steps,
                   torch_optimizer, batch, eval_done, optimizer_steps,
                   scheduler_steps, predictions_written, eval_at_write,
                   eval_script_runs, schedVars, optVars>>

NoRun ==
    /\ step_size = 0 /\ num_train_optimization_steps = 0 /\ torch_optimizer = FALSE
    /\ epoch = 0 /\ batch = 0 /\ eval_done = 0
    /\ optimizer_steps = 0 /\ scheduler_steps = 0
    /\ predictions_written = 0 /\ eval_at_write = 0 /\ eval_script_runs = 0

IdleDriver ==
    /\ config_optimizer_type = "" /\ py_optimize = FALSE /\ is_prof = FALSE
    /\ n_train_features = 0 /\ train_batch_size = 0 /\ num_train_epochs = 0
    /\ n_eval_batches = 0
    /\ NoRun

NoOptimizer == AdamWeightDecayInit("none", 0, None, None)

NoUpdate ==
    /\ var_name = <<>> /\ var = 0 /\ var0 = 0 /\ sparse = FALSE
    /\ decayed_lr = 0 /\ apply_state = None /\ lr_t = 0 /\ kwargs = EmptyDict
    /\ do_decay = FALSE /\ applied = <<>> /\ reloaded = FALSE

IdleOptimizer == opt = NoOptimizer /\ orig = NoOptimizer /\ NoUpdate

IdleSchedule ==
    /\ init_lr = 0 /\ num_train_steps = 0 /\ num_warmup_steps = 0
    /\ optimizer_type = "" /\ learning_rate_fn = NoSchedule
    /\ iterations = 0 /\ step = NoStep /\ rate = NoRate /\ prev_rate = NoRate

InitOptimizer ==
    /\ component = "optimizer" /\ pc = "idle" /\ exc = "none"
    /\ \E wd \in 0..MaxDecayRate, inc \in PatternLists, excl \in PatternLists :
         opt = AdamWeightDecayInit("schedule", wd, inc, excl)
    /\ orig = opt
    /\ NoUpdate
    /\ IdleSchedule /\ IdleDriver

InitSchedule ==
    /\ component = "schedule" /\ pc = "start" /\ exc = "none"
    /\ \/ /\ init_lr \in 1..MaxInitLr
          /\ num_train_steps \in 0..MaxTrainSteps
          /\ num_warmup_steps \in 0..MaxWarmupSteps
       \/ init_lr = 1 /\ num_train_steps = 100 /\ num_warmup_steps = 10
    /\ optimizer_type \in {"adam", "lamb"}
    /\ learning_rate_fn = NoSchedule
    /\ iterations = 0 /\ step = NoStep /\ rate = NoRate /\ prev_rate = NoRate
    /\ IdleOptimizer /\ IdleDriver

InitDriver ==
    /\ component = "driver" /\ pc = "main" /\ exc = "none"
    /\ config_optimizer_type \in {"AdamW", "SGD"}
    /\ py_optimize \in BOOLEAN
    /\ is_prof \in BOOLEAN
    /\ n_train_features \in 0..MaxFeatures
    /\ train_batch_size \in 1..MaxBatchSize
    /\ num_train_epochs \in 0..MaxEpochs
    /\ n_eval_batches \in 0..MaxEvalBatches
    /\ NoRun
    /\ IdleSchedule /\ IdleOptimizer

Init == InitSchedule \/ InitOptimizer \/ InitDriver

Next ==
    \/ create_optimizer
    \/ ScheduleStep
    \/ resource_apply_dense
    \/ resource_apply_sparse
    \/ decay_weights_op
    \/ adam_apply
    \/ resource_apply_return
    \/ reload
    \/ driver_setup
    \/ epoch_begin
    \/ train_batch
    \/ train_end
    \/ eval_batch
    \/ write_predictions
    \/ run_eval_script
    \/ parse_scores

Spec == Init /\ [][Next]_vars

\* ============================ properties ============================
Built == component = "schedule" /\ pc = "built"
Called == step # NoStep
NormalRange == 0 < num_warmup_steps /\ num_warmup_steps < num_train_steps

\* C1 (as claimed): with 0 < w < T, at every step < w the rate is exactly
\* init_lr * step / w, and it does not decrease from one step to the next.
C1_WarmupIsPeakTimesStepOverW ==
    (Built /\ NormalRange /\ Called /\ step < num_warmup_steps) =>
        /\ rate = Norm(init_lr * step, num_warmup_steps)
        /\ (step > 0 => RLe(prev_rate, rate))

\* C2: with 0 < w < T, at every step >= w the rate is
\* init_lr * (T - step) / (T - w) up to step T, it never increases from one
\* step to the next, and it is 0 at step T and at every later step.
C2_LinearDecayToZero ==
    (Built /\ NormalRange /\ Called /\ step >= num_warmup_steps) =>
        /\ (step <= num_train_steps =>
               rate = Norm(init_lr * (num_train_steps - step),
                           num_train_steps - num_warmup_steps))
        /\ (step > num_warmup_steps => RLe(rate, prev_rate))
        /\ (step >= num_train_steps => rate = Rat(0))

C2_Witness ==
    /\ Built /\ NormalRange /\ step > num_train_steps
    /\ rate = Rat(0) /\ prev_rate = Rat(0)

\* C3: at step == warmup_steps the WarmUp schedule returns what the wrapped
\* decay schedule returns at that step, and with 0 < w < T that is init_lr.
C3_CrossoverIsDecayValue ==
    (Built /\ num_warmup_steps > 0 /\ step = num_warmup_steps) =>
        /\ rate = PolynomialDecayCall(learning_rate_fn.decay_schedule_fn, step)
        /\ (NormalRange => rate = Rat(init_lr))

C3_Witness ==
    /\ Built /\ num_warmup_steps = 10 /\ num_train_steps = 100 /\ init_lr = 1
    /\ step = 10 /\ rate = Rat(1)

\* C8 (as claimed): with num_warmup_steps >= 1 and num_train_steps >= 1,
\* create_optimizer and every call of the schedule return without raising.
C8_NoFailureWithPositiveSteps ==
    (component = "schedule" /\ optimizer_type = "adam"
        /\ num_warmup_steps >= 1 /\ num_train_steps >= 1) => exc = "none"

\* ---- weight decay
MatchesAny(lst, name) ==
    lst # None /\ \E i \in 1..Len(Get(lst)) : ReSearch(Get(lst)[i], name)

Excluded == MatchesAny(opt.exclude_from_weight_decay, var_name)
Included == MatchesAny(opt.include_in_weight_decay, var_name)
DecayOpDone == component = "optimizer" /\ pc = "adam"
DecayTerm == var0 - var
FullDecay == decayed_lr * opt.weight_decay_rate * var0

\* C4 (as claimed): once the decay op of an update has run, a parameter whose
\* name matches an exclusion pattern has lost exactly 0, whatever the
\* inclusion list; any other parameter has lost lr * weight_decay_rate * value.
C4_ExcludedNeverDecayed ==
    DecayOpDone =>
        /\ (Excluded => DecayTerm = 0)
        /\ (~Excluded => DecayTerm = FullDecay)

\* C4 (amended): a parameter whose name matches an exclusion pattern and no
\* inclusion pattern has lost exactly 0; any other parameter has lost
\* lr * weight_decay_rate * value.
C4_ExcludedAndNotIncludedNeverDecayed ==
    DecayOpDone =>
        /\ (Excluded /\ ~Included => DecayTerm = 0)
        /\ (~Excluded \/ Included => DecayTerm = FullDecay)

C4_Witness ==
    /\ DecayOpDone /\ Excluded /\ ~Included /\ opt.weight_decay_rate > 0
    /\ var = var0

\* C5 (as claimed): _do_use_weight_decay answers True exactly for the names
\* that match no exclusion pattern or match an inclusion pattern.
C5_EligibleUnlessExcluded ==
    DecayOpDone => (do_decay <=> (Included \/ ~Excluded))

\* C5 (amended): with weight_decay_rate # 0, _do_use_weight_decay answers
\* True exactly for the names that match no exclusion pattern or match an
\* inclusion pattern; with weight_decay_rate = 0 it answers False for all.
C5_EligibleUnlessExcludedOrZeroRate ==
    DecayOpDone =>
        (do_decay <=> (opt.weight_decay_rate # 0 /\ (Included \/ ~Excluded)))

C5_Witness == DecayOpDone /\ do_decay /\ Included /\ Excluded

\* C6: within one update the only assignments to the parameter are, in this
\* order, the decay subtraction (if and only if the parameter is eligible) and
\* the Adam step, dense or sparse as called; both use this step's lr_t.
IsAdam(a) == a.op \in {"adam_dense", "adam_sparse"}

C6_DecayBeforeAdam ==
    component = "optimizer" =>
        /\ \A i \in 1..Len(applied) :
             /\ IsAdam(applied[i]) =>
                  /\ i = Len(applied)
                  /\ applied[i].op = (IF sparse THEN "adam_sparse" ELSE "adam_dense")
                  /\ applied[i].lr = decayed_lr
                  /\ IF do_decay
                     THEN /\ i = 2
                          /\ applied[1].op = "assign_sub"
                          /\ applied[1].lr = applied[i].lr
                     ELSE i = 1
             /\ ~IsAdam(applied[i]) =>
                  /\ applied[i].op = "assign_sub" /\ i = 1
                  /\ do_decay /\ do_decay = do_use_weight_decay(opt, var_name)
        /\ (pc = "adam" => Len(applied) = (IF do_decay THEN 1 ELSE 0))
        /\ (pc = "applied" => Len(applied) >= 1 /\ IsAdam(applied[Len(applied)]))

C6_Witness ==
    /\ component = "optimizer" /\ pc = "applied" /\ sparse
    /\ Len(applied) = 2 /\ applied[1].op = "assign_sub"
    /\ applied[2].op = "adam_sparse" /\ applied[1].lr = applied[2].lr

\* C7 (as claimed): the optimizer rebuilt by from_config(get_config()) decides
\* decay for every parameter name as the original does, and subtracts the
\* same decay term.
C7_RoundTripKeepsDecay ==
    (component = "optimizer" /\ reloaded) =>
        /\ \A n \in ParamNames :
             do_use_weight_decay(opt, n) = do_use_weight_decay(orig, n)
        /\ (pc = "adam" =>
              DecayTerm = (IF do_use_weight_decay(orig, var_name)
                           THEN decayed_lr * orig.weight_decay_rate * var0
                           ELSE 0))

\* ---- unsupported optimizer types
TfUnsupported ==
    component = "schedule" /\ optimizer_type # "adam" /\ pc # "start"
TorchUnsupported ==
    component = "driver" /\ config_optimizer_type # "AdamW" /\ pc # "main"
NoTfOptimizer == learning_rate_fn = NoSchedule /\ iterations = 0
NoTorchOptimizer ==
    ~torch_optimizer /\ optimizer_steps = 0 /\ scheduler_steps = 0

\* C9 (as claimed): an unsupported optimizer type ends in NotImplementedError
\* with no optimizer built and no training step taken, in create_optimizer
\* and in the PyTorch driver.
C9_UnsupportedRaisesNotImplemented ==
    /\ TfUnsupported =>
         pc = "raised" /\ exc = "NotImplementedError" /\ NoTfOptimizer
    /\ TorchUnsupported =>
         pc = "raised" /\ exc = "NotImplementedError" /\ NoTorchOptimizer

\* C9 (amended): in create_optimizer an unsupported type ends in
\* NotImplementedError; in the PyTorch driver, run with assert statements
\* enabled, it ends in AssertionError; in both no optimizer is built and no
\* training step is taken.
C9_UnsupportedRaises ==
    /\ TfUnsupported =>
         pc = "raised" /\ exc = "NotImplementedError" /\ NoTfOptimizer
    /\ (TorchUnsupported /\ ~py_optimize) =>
         pc = "raised" /\ exc = "AssertionError" /\ NoTorchOptimizer

C9_Witness ==
    /\ component = "driver" /\ config_optimizer_type = "SGD" /\ ~py_optimize
    /\ pc = "raised" /\ exc = "AssertionError"

\* C10: with profiling off, predictions.json is written once per epoch, after
\* every evaluation batch of the epoch and before the evaluation script runs;
\* training of the next epoch starts only after the script ran and its output
\* parsed; after N completed epochs there were N writes; a failure of the
\* script or of parsing its output ends the run.
C10_OneWritePerEpoch ==
    (component = "driver" /\ ~is_prof) =>
        /\ (pc \in {"epoch", "train", "eval", "finished"} =>
               predictions_written = epoch /\ eval_script_runs = epoch)
        /\ (pc = "script" =>
               predictions_written = epoch + 1 /\ eval_script_runs = epoch)
        /\ (pc = "parse" =>
               predictions_written = epoch + 1 /\ eval_script_runs = epoch + 1)
        /\ (pc = "finished" => predictions_written = num_train_epochs)
        /\ (predictions_written > 0 => eval_at_write = n_eval_batches)
        /\ eval_script_runs <= predictions_written
        /\ (exc \in {"CalledProcessError", "IndexError", "ValueError"} =>
               pc = "raised" /\ ~ENABLED Next)

C10_Witness ==
    /\ component = "driver" /\ ~is_prof /\ pc = "finished"
    /\ predictions_written = 2 /\ eval_script_runs = 2 /\ n_eval_batches = 2

\* C11 (as claimed): with 0 < w < T the rate returned at any step >= 0 is
\* never negative and never above init_lr, and across the crossover
\* rate(w - 1) <= rate(w) = init_lr.
C11_RateBetweenZeroAndPeak ==
    (Built /\ NormalRange /\ Called) =>
        /\ RLe(Rat(0), rate)
        /\ RLe(rate, Rat(init_lr))
        /\ (step = num_warmup_steps =>
               rate = Rat(init_lr) /\ RLe(prev_rate, rate))

\* C12 (as claimed): in the training loop scheduler.step() follows every
\* optimizer.step(), once each, and the scheduler steps taken never exceed the
\* total_steps the scheduler was constructed with, int(N / B) * E.
C12_SchedulerStepsWithinTotal ==
    (component = "driver" /\ torch_optimizer) =>
        /\ scheduler_steps = optimizer_steps
        /\ scheduler_steps <= num_train_optimization_steps
====
